---- MODULE Spec2Model ----
(***************************************************************************)
(* Model of titan/props.py: property descriptors (Prop and its subclasses) *)
(* and the named collection Props.                                         *)
(*                                                                         *)
(* Text is modelled at character level: a Python str is a sequence of      *)
(* one-character strings, so that rendering (concatenation, upper-casing)  *)
(* and parsing (keyword matching, tokenising, quoting) are computed and    *)
(* never assumed to be inverse to one another.                             *)
(***************************************************************************)
EXTENDS Integers, Sequences, FiniteSets, TLC

VARIABLES descs, props, call, default_alt_tokens, default_consume

vars == <<descs, props, call, default_alt_tokens, default_consume>>

(***************************************************************************)
(* Bounds of the model.                                                    *)
(***************************************************************************)
\* longest sequence / mapping passed to a render or a typecheck
MaxLen == 2

(***************************************************************************)
(* Python str primitives.                                                  *)
(***************************************************************************)
Lowers == <<"a","b","c","d","e","f","g","h","i","j","k","l","m",
            "n","o","p","q","r","s","t","u","v","w","x","y","z">>
Uppers == <<"A","B","C","D","E","F","G","H","I","J","K","L","M",
            "N","O","P","Q","R","S","T","U","V","W","X","Y","Z">>
Digits == <<"0","1","2","3","4","5","6","7","8","9">>

Range(s) == {s[i] : i \in 1..Len(s)}

upper_char(c) ==
    IF c \in Range(Lowers) THEN Uppers[CHOOSE i \in 1..Len(Lowers) : Lowers[i] = c] ELSE c

lower_char(c) ==
    IF c \in Range(Uppers) THEN Lowers[CHOOSE i \in 1..Len(Uppers) : Uppers[i] = c] ELSE c

\* str.upper()
str_upper(s) == [i \in 1..Len(s) |-> upper_char(s[i])]

\* str.lower()
str_lower(s) == [i \in 1..Len(s) |-> lower_char(s[i])]

RECURSIVE lstrip(_, _)
lstrip(s, chars) ==
    IF s # <<>> /\ Head(s) \in chars THEN lstrip(Tail(s), chars) ELSE s

RECURSIVE rstrip(_, _)
rstrip(s, chars) ==
    IF s # <<>> /\ s[Len(s)] \in chars THEN rstrip(SubSeq(s, 1, Len(s) - 1), chars) ELSE s

\* str.strip(chars)
str_strip(s, chars) == rstrip(lstrip(s, chars), chars)

\* sep.join(parts)
RECURSIVE str_join(_, _)
str_join(sep, parts) ==
    IF parts = <<>> THEN <<>>
    ELSE IF Len(parts) = 1 THEN parts[1]
    ELSE parts[1] \o sep \o str_join(sep, Tail(parts))

\* str.split(" ") on single spaces
RECURSIVE str_split(_, _)
str_split(s, acc) ==
    IF s = <<>> THEN <<acc>>
    ELSE IF Head(s) = " " THEN <<acc>> \o str_split(Tail(s), <<>>)
    ELSE str_split(Tail(s), Append(acc, Head(s)))

\* str(n) for a natural number n
RECURSIVE int_str(_)
int_str(n) ==
    IF n < 10 THEN <<Digits[n + 1]>> ELSE int_str(n \div 10) \o <<Digits[(n % 10) + 1]>>

(***************************************************************************)
(* Python values, tagged by type.                                          *)
(***************************************************************************)
PyNone == [t |-> "None", v |-> <<>>]
PyStr(s) == [t |-> "str", v |-> s]
PyBool(b) == [t |-> "bool", v |-> b]
PyInt(n) == [t |-> "int", v |-> n]
\* list of str
PyList(l) == [t |-> "list", v |-> l]
\* dict str -> str, as the sequence of its items in insertion order
PyDict(items) == [t |-> "dict", v |-> items]
\* member of an enumeration, identified by its serialized value
PyEnum(val) == [t |-> "enum", v |-> val]
\* list of enumeration members
PyEnumList(l) == [t |-> "enumlist", v |-> l]
\* list of column records
PyColumns(l) == [t |-> "columns", v |-> l]
\* a raised exception
PyRaise(exc) == [t |-> "raise", v |-> exc]

IsRaise(x) == x.t = "raise"

\* truth value of a Python object
Truthy(x) ==
    CASE x.t = "None" -> FALSE
      [] x.t = "bool" -> x.v
      [] x.t = "int" -> x.v # 0
      [] OTHER -> x.v # <<>>

\* str(value) of a bool
bool_str(b) == IF b THEN <<"T","r","u","e">> ELSE <<"F","a","l","s","e">>

\* str(member) of an enumeration member: its serialized value
enum_str(m) == m.v

\* str(list) of a list of enumeration members
enum_list_str(l) ==
    <<"[">> \o str_join(<<",", " ">>, [i \in 1..Len(l) |-> enum_str(PyEnum(l[i]))]) \o <<"]">>

\* str(dict) of a dict str -> str
dict_str(items) ==
    <<"{">>
    \o str_join(<<",", " ">>,
                [i \in 1..Len(items) |->
                    <<"'">> \o items[i][1] \o <<"'", ":", " ", "'">> \o items[i][2] \o <<"'">>])
    \o <<"}">>

\* builder.tidy_sql: the non-empty parts joined by single spaces
RECURSIVE NonEmpty(_)
NonEmpty(parts) ==
    IF parts = <<>> THEN <<>>
    ELSE IF Head(parts) = <<>> THEN NonEmpty(Tail(parts))
    ELSE <<Head(parts)>> \o NonEmpty(Tail(parts))

tidy_sql(parts) == str_join(<<" ">>, NonEmpty(parts))

(***************************************************************************)
(* Grammar elements.  A compiled parser is the sequence (pp.And) of its    *)
(* elements; an element is [e, toks, keys, expr]:                          *)
(*   e = "consume"   And of Opt(Keyword(tok)) for tok in toks, suppressed  *)
(*   e = "label"     Keywords(toks[1]), suppressed                         *)
(*   e = "eq"        EQUALS()                                              *)
(*   e = "value"     the value expression expr, named prop_value           *)
(*   e = "in_parens" the value expression expr between "(" and ")"         *)
(*   e = "flag"      Keywords(toks[1]) named prop_value                    *)
(* keys are the keywords of an enumeration's MatchFirst.                   *)
(***************************************************************************)
Elem(e, toks, keys, expr) == [e |-> e, toks |-> toks, keys |-> keys, expr |-> expr]

\* the serialized values of the members of the enumeration class the
\* descriptors of the model are built on
Mode == {<<"R","O">>, <<"R","W">>, <<"N","O">>}

\* the marker of an argument left to its default
Default == [t |-> "default", v |-> <<>>]

\* keyword arguments of a constructor call that passes none
NoKwargs == [eq |-> TRUE, parens |-> FALSE, alt_tokens |-> Default, consume |-> Default]

\* Prop.__init__: lines 31-61
Prop__init__(cls, label, value_expr, keys, kw) ==
    LET alt_tokens == IF kw.alt_tokens = Default THEN default_alt_tokens
                      ELSE kw.alt_tokens.v
        consume0 == IF kw.consume = Default THEN PyList(default_consume) ELSE kw.consume
        consume == IF consume0.t = "str" THEN <<consume0.v>> ELSE consume0.v
        consume_expr == IF consume # <<>> THEN <<Elem("consume", consume, {}, "")>> ELSE <<>>
        label_expr == IF Truthy(label) THEN <<Elem("label", <<label.v>>, {}, "")>> ELSE <<>>
        eq_expr == IF kw.eq THEN <<Elem("eq", <<>>, {}, "")>> ELSE <<>>
        value_el == IF kw.parens THEN <<Elem("in_parens", <<>>, keys, value_expr)>>
                    ELSE <<Elem("value", <<>>, keys, value_expr)>>
    IN [cls |-> cls,
        label |-> label,
        eq |-> kw.eq,
        alt_tokens |-> {str_lower(alt_tokens[i]) : i \in 1..Len(alt_tokens)},
        parser |-> consume_expr \o label_expr \o consume_expr \o eq_expr \o value_el,
        enum_type |-> IF keys = {} THEN {} ELSE Mode,
        valid_values |-> keys]

\* the slot of a descriptor that has not been constructed
NoDesc == [cls |-> "none", label |-> PyNone, eq |-> FALSE, alt_tokens |-> {},
           parser |-> <<>>, enum_type |-> {}, valid_values |-> {}]

BoolProp(label, kw) == Prop__init__("BoolProp", label, "ANY", {}, kw)
IntProp(label, kw) == Prop__init__("IntProp", label, "ANY", {}, kw)
StringProp(label, kw) == Prop__init__("StringProp", label, "ANY", {}, kw)

\* FlagProp.__init__: lines 147-149
FlagProp(label) ==
    [Prop__init__("FlagProp", label, "ANY", {}, [NoKwargs EXCEPT !.eq = FALSE])
        EXCEPT !.parser = <<Elem("flag", <<label.v>>, {}, "")>>]

IdentifierProp(label, kw) ==
    Prop__init__("IdentifierProp", label, "FullyQualifiedIdentifier", {}, kw)
IdentifierListProp(label, kw) ==
    Prop__init__("IdentifierListProp", label, "DelimitedList(Group(FullyQualifiedIdentifier))", {}, kw)
\* StringListProp.__init__: lines 189-191
StringListProp(label, kw) ==
    Prop__init__("StringListProp", label, "DelimitedList(ANY)", {}, kw)
PropSet(label) == Prop__init__("PropSet", label, "nested_expr", {}, NoKwargs)
\* TagsProp.__init__: lines 233-236
TagsProp ==
    Prop__init__("TagsProp", PyStr(<<"T","A","G">>), "DelimitedList(ANY+EQUALS+ANY)", {},
                 [eq |-> FALSE, parens |-> TRUE, alt_tokens |-> Default,
                  consume |-> PyStr(<<"W","I","T","H">>)])
\* DictProp.__init__: lines 257-259
DictProp(label, kw) ==
    Prop__init__("DictProp", label, "DelimitedList(ANY+EQUALS+ANY)", {}, kw)
\* EnumProp.__init__: lines 270-274 (the enumeration type is EnumType below)
EnumProp(label, enum_or_list, kw) ==
    Prop__init__("EnumProp", label, "MatchFirst(Keywords)|ANY", enum_or_list, kw)
EnumListProp(label, enum_or_list, kw) ==
    Prop__init__("EnumListProp", label, "DelimitedList(MatchFirst(Keywords)|ANY)", enum_or_list, kw)
EnumFlagProp(enum_or_list, kw) ==
    Prop__init__("EnumFlagProp", PyNone, "MatchFirst(Keywords)", enum_or_list,
                 [kw EXCEPT !.eq = FALSE])
QueryProp(label) ==
    Prop__init__("QueryProp", label, "Word(printables)", {}, [NoKwargs EXCEPT !.eq = FALSE])
ExpressionProp(label) ==
    Prop__init__("ExpressionProp", label, "SkipTo(AS)", {}, [NoKwargs EXCEPT !.eq = FALSE])
TimeTravelProp(label) ==
    Prop__init__("TimeTravelProp", label, "ANY+ARROW+ANY", {},
                 [NoKwargs EXCEPT !.eq = FALSE, !.parens = TRUE])
AlertConditionProp ==
    Prop__init__("AlertConditionProp", PyStr(<<"I","F">>), "EXISTS+nested_expr", {},
                 [NoKwargs EXCEPT !.eq = FALSE, !.parens = TRUE])
SessionParametersProp(label) ==
    Prop__init__("SessionParametersProp", label, "ANY", {}, NoKwargs)
ColumnsProp ==
    Prop__init__("ColumnsProp", PyNone, "nested_expr", {}, [NoKwargs EXCEPT !.eq = FALSE])
ColumnNamesProp ==
    Prop__init__("ColumnNamesProp", PyNone, "nested_expr", {}, [NoKwargs EXCEPT !.eq = FALSE])

(***************************************************************************)
(* render, per kind.  Each returns PyStr(text) or PyRaise(exception).      *)
(***************************************************************************)
eq_part(self) == IF self.eq THEN <<"=">> ELSE <<>>

\* a render that formats the value without looking for None first
BoolProp_render_unguarded(self, value) ==
    PyStr(tidy_sql(<<str_upper(self.label.v), eq_part(self),
                     IF value.t = "bool" THEN str_upper(bool_str(value.v))
                     ELSE <<"N","O","N","E">> >>))

\* BoolProp.render: lines 105-112
BoolProp_render(self, value) ==
    IF value = PyNone THEN PyStr(<<>>)
    ELSE PyStr(tidy_sql(<<str_upper(self.label.v), eq_part(self), str_upper(bool_str(value.v))>>))

\* IntProp.render: lines 122-129
IntProp_render(self, value) ==
    IF value = PyNone THEN PyStr(<<>>)
    ELSE PyStr(tidy_sql(<<str_upper(self.label.v), eq_part(self), int_str(value.v)>>))

\* StringProp.render: lines 136-143
StringProp_render(self, value) ==
    IF value = PyNone THEN PyStr(<<>>)
    ELSE PyStr(tidy_sql(<<str_upper(self.label.v), eq_part(self), <<"'">> \o value.v \o <<"'">> >>))

\* FlagProp.render: lines 154-155
FlagProp_render(self, value) ==
    IF Truthy(value) THEN PyStr(str_upper(self.label.v)) ELSE PyStr(<<>>)

\* IdentifierProp.render: lines 165-172
IdentifierProp_render(self, value) ==
    IF value = PyNone THEN PyStr(<<>>)
    ELSE PyStr(tidy_sql(<<str_upper(self.label.v), eq_part(self), value.v>>))

\* a render that does nothing where it is not supported
IdentifierListProp_render_noop(self, values) == PyStr(<<>>)

\* IdentifierListProp.render: lines 184-185
IdentifierListProp_render(self, values) == PyRaise("NotImplementedError")

\* StringListProp.render: lines 196-204
StringListProp_render(self, values) ==
    IF values = PyNone THEN PyStr(<<>>)
    ELSE LET value_list == str_join(<<",", " ">>, values.v)
         IN PyStr(tidy_sql(<<str_upper(self.label.v), eq_part(self),
                             <<"(">> \o value_list \o <<")">> >>))

\* TagsProp.render: lines 245-249
TagsProp_render(self, value) ==
    IF value = PyNone THEN PyStr(<<>>)
    ELSE LET tag_kv_pairs ==
                 str_join(<<",", " ">>,
                          [i \in 1..Len(value.v) |->
                              value.v[i][1] \o <<" ", "=", " ", "'">> \o value.v[i][2] \o <<"'">>])
         IN PyStr(self.label.v \o <<" ", "(">> \o tag_kv_pairs \o <<")">>)

\* EnumProp.render: lines 282-286
EnumProp_render(self, value) ==
    IF value = PyNone THEN PyStr(<<>>)
    ELSE LET eq == IF self.eq THEN <<" ", "=", " ">> ELSE <<" ">>
         IN PyStr(self.label.v \o eq \o enum_str(value))

\* EnumListProp.render: lines 304-308
EnumListProp_render(self, values) ==
    IF values = PyNone \/ Len(values.v) = 0 THEN PyStr(<<>>)
    ELSE LET eq == IF self.eq THEN <<" ", "=", " ">> ELSE <<" ">>
         IN PyStr(self.label.v \o eq \o <<"(">> \o enum_list_str(values.v) \o <<")">>)

\* EnumFlagProp.render: lines 324-327
EnumFlagProp_render(self, value) ==
    IF value = PyNone THEN PyStr(<<>>) ELSE PyStr(enum_str(value))

\* QueryProp.render: lines 338-341
QueryProp_render(self, value) ==
    IF value = PyNone THEN PyStr(<<>>) ELSE PyStr(self.label.v \o <<" ">> \o value.v)

\* ExpressionProp.render: lines 352-355
ExpressionProp_render(self, value) ==
    IF value = PyNone THEN PyStr(<<>>) ELSE PyStr(self.label.v \o <<" ">> \o value.v)

\* TimeTravelProp.render: lines 376-379
TimeTravelProp_render(self, value) ==
    IF value = PyNone THEN PyStr(<<>>)
    ELSE PyStr(self.label.v \o <<" ", "(">> \o dict_str(value.v) \o <<")">>)

\* AlertConditionProp.render: lines 391-394
AlertConditionProp_render(self, value) ==
    IF value = PyNone THEN PyStr(<<>>)
    ELSE PyStr(<<"I","F","(","E","X","I","S","T","S","("," ">> \o value.v \o <<" ",")",")">>)

\* ColumnsProp.render: lines 419-426
ColumnsProp_render(self, value) ==
    IF value = PyNone THEN PyStr(<<"(", ")">>)
    ELSE LET column(col) ==
                 LET comment == IF col.comment # <<>>
                                THEN <<" ","C","O","M","M","E","N","T"," ","'">> \o col.comment \o <<"'">>
                                ELSE <<>>
                 IN col.name \o <<" ">> \o col.data_type \o comment
         IN PyStr(<<"(">> \o str_join(<<",", " ">>, [i \in 1..Len(value.v) |-> column(value.v[i])])
                  \o <<")">>)

\* Prop.render, inherited where a kind defines none: lines 76-77
Prop_render(self, value) == PyRaise("NotImplementedError")

\* the render method the class of self resolves to
render(self, value) ==
    CASE self.cls = "BoolProp" -> BoolProp_render(self, value)
      [] self.cls = "IntProp" -> IntProp_render(self, value)
      [] self.cls = "StringProp" -> StringProp_render(self, value)
      [] self.cls = "FlagProp" -> FlagProp_render(self, value)
      [] self.cls = "IdentifierProp" -> IdentifierProp_render(self, value)
      [] self.cls = "IdentifierListProp" -> IdentifierListProp_render(self, value)
      [] self.cls = "StringListProp" -> StringListProp_render(self, value)
      [] self.cls = "TagsProp" -> TagsProp_render(self, value)
      [] self.cls = "EnumProp" -> EnumProp_render(self, value)
      [] self.cls = "EnumListProp" -> EnumListProp_render(self, value)
      [] self.cls = "EnumFlagProp" -> EnumFlagProp_render(self, value)
      [] self.cls = "QueryProp" -> QueryProp_render(self, value)
      [] self.cls = "ExpressionProp" -> ExpressionProp_render(self, value)
      [] self.cls = "TimeTravelProp" -> TimeTravelProp_render(self, value)
      [] self.cls = "AlertConditionProp" -> AlertConditionProp_render(self, value)
      [] self.cls = "ColumnsProp" -> ColumnsProp_render(self, value)
      [] OTHER -> Prop_render(self, value)

(***************************************************************************)
(* Lexical primitives (titan.parse over pyparsing), at character level.    *)
(* A match is [ok, pos, toks]: pos is the index of the next character,     *)
(* toks the tokens produced.  Leading whitespace is skipped before every   *)
(* terminal.                                                               *)
(***************************************************************************)
Whitespace == {" ", "\n", "\t"}
AlphaNums == Range(Lowers) \cup Range(Uppers) \cup Range(Digits)
\* the characters a keyword may not be adjacent to
KeywordChars == AlphaNums \cup {"_", "$"}
\* the characters of a bare word
WordChars == AlphaNums \cup {"_"}

Fail == [ok |-> FALSE, pos |-> 0, toks |-> <<>>]
Ok(pos, toks) == [ok |-> TRUE, pos |-> pos, toks |-> toks]

\* pp.And of a match and what follows it
Then(m, F(_)) == IF m.ok THEN F(m) ELSE Fail

\* first | second
OrElse(first, second) == IF first.ok THEN first ELSE second

RECURSIVE SkipWs(_, _)
SkipWs(s, p) == IF p <= Len(s) /\ s[p] \in Whitespace THEN SkipWs(s, p + 1) ELSE p

LiteralAt(c, s, p) == IF p <= Len(s) /\ s[p] = c THEN Ok(p + 1, <<>>) ELSE Fail

\* pp.Literal(c), suppressed
Literal(c, s, p0) == LiteralAt(c, s, SkipWs(s, p0))

KeywordAt(w, s, p) ==
    IF /\ p + Len(w) - 1 <= Len(s)
       /\ str_upper(SubSeq(s, p, p + Len(w) - 1)) = str_upper(w)
       /\ (p + Len(w) > Len(s) \/ s[p + Len(w)] \notin KeywordChars)
       /\ (p = 1 \/ s[p - 1] \notin KeywordChars)
    THEN Ok(p + Len(w), <<w>>)
    ELSE Fail

\* Keyword(w): a caseless keyword; the token is the keyword as defined
Keyword(w, s, p0) == KeywordAt(w, s, SkipWs(s, p0))

\* Keywords(label): the words of label as consecutive keywords, one token
RECURSIVE KeywordSeq(_, _, _, _)
KeywordSeq(words, s, p, toks) ==
    IF words = <<>> THEN Ok(p, <<str_join(<<" ">>, toks)>>)
    ELSE Then(Keyword(Head(words), s, p),
              LAMBDA m : KeywordSeq(Tail(words), s, m.pos, toks \o m.toks))

Keywords(keywords, s, p) == KeywordSeq(str_split(keywords, <<>>), s, p, <<>>)

RECURSIVE WordEnd(_, _)
WordEnd(s, p) == IF p <= Len(s) /\ s[p] \in WordChars THEN WordEnd(s, p + 1) ELSE p

\* the index of the quote closing a single-quoted string whose body starts
\* at p ('' inside the body is an escaped quote), or 0
RECURSIVE QuoteEnd(_, _)
QuoteEnd(s, p) ==
    IF p > Len(s) \/ s[p] = "\n" THEN 0
    ELSE IF s[p] # "'" THEN QuoteEnd(s, p + 1)
    ELSE IF p + 1 <= Len(s) /\ s[p + 1] = "'" /\ QuoteEnd(s, p + 2) # 0 THEN QuoteEnd(s, p + 2)
    ELSE p

Span(s, p, e) == Ok(e, <<SubSeq(s, p, e - 1)>>)

\* pp.sgl_quoted_string: the token keeps its quotes
SglQuotedEnd(s, p, q) == IF q # 0 THEN Span(s, p, q + 1) ELSE Fail

SglQuotedString(s, p) ==
    IF p <= Len(s) /\ s[p] = "'" THEN SglQuotedEnd(s, p, QuoteEnd(s, p + 1)) ELSE Fail

WordTo(s, p, e) == IF e > p THEN Span(s, p, e) ELSE Fail

AnyAt(s, p) == OrElse(WordTo(s, p, WordEnd(s, p)), SglQuotedString(s, p))

\* ANY(): a bare word or a single-quoted string
ANY(s, p0) == AnyAt(s, SkipWs(s, p0))

\* pp.MatchFirst([Keywords(val.value) for val in valid_values]); at most one
\* keyword of a set of distinct one-word values matches at a position
FirstOf(matching, s, p) ==
    IF matching = {} THEN Fail ELSE Keywords(CHOOSE k \in matching : TRUE, s, p)

MatchFirstKeywords(keys, s, p) == FirstOf({k \in keys : Keywords(k, s, p).ok}, s, p)

\* ANY() + EQUALS() + ANY()
KeyEqualsValue(s, p) ==
    Then(ANY(s, p),
         LAMBDA k : Then(Literal("=", s, k.pos),
                         LAMBDA e : Then(ANY(s, e.pos),
                                         LAMBDA v : Ok(v.pos, k.toks \o v.toks))))

\* the expression a delimited list repeats, or the expression itself
InnerExpr(expr) ==
    CASE expr = "DelimitedList(ANY)" -> "ANY"
      [] expr = "DelimitedList(ANY+EQUALS+ANY)" -> "ANY+EQUALS+ANY"
      [] expr = "DelimitedList(MatchFirst(Keywords)|ANY)" -> "MatchFirst(Keywords)|ANY"
      [] OTHER -> expr

IsListExpr(expr) == InnerExpr(expr) # expr

\* one occurrence of an expression that is no list
Element(expr, keys, s, p) ==
    CASE expr = "ANY" -> ANY(s, p)
      [] expr = "ANY+EQUALS+ANY" -> KeyEqualsValue(s, p)
      [] expr = "MatchFirst(Keywords)" -> MatchFirstKeywords(keys, s, p)
      [] expr = "MatchFirst(Keywords)|ANY" -> OrElse(MatchFirstKeywords(keys, s, p), ANY(s, p))
      [] OTHER -> Fail

\* pp.DelimitedList(expr): expr + ZeroOrMore("," + expr), commas suppressed;
\* with many = FALSE, expr alone
RECURSIVE Elements(_, _, _, _, _, _, _)
Elements(expr, keys, s, p, toks, first, many) ==
    OrElse(Then(IF first THEN Ok(p, <<>>) ELSE Literal(",", s, p),
                LAMBDA c : Then(Element(expr, keys, s, c.pos),
                                LAMBDA m : IF many
                                           THEN Elements(expr, keys, s, m.pos, toks \o m.toks,
                                                         FALSE, TRUE)
                                           ELSE Ok(m.pos, m.toks))),
           IF first THEN Fail ELSE Ok(p, toks))

ValueExpr(expr, keys, s, p) ==
    Elements(InnerExpr(expr), keys, s, p, <<>>, TRUE, IsListExpr(expr))

\* _in_parens(expr): "(" expr ")", parentheses suppressed; with parens =
\* FALSE, expr alone
MaybeInParens(parens, expr, keys, s, p) ==
    Then(IF parens THEN Literal("(", s, p) ELSE Ok(p, <<>>),
         LAMBDA o : Then(ValueExpr(expr, keys, s, o.pos),
                         LAMBDA m : Then(IF parens THEN Literal(")", s, m.pos) ELSE Ok(m.pos, <<>>),
                                         LAMBDA c : Ok(c.pos, m.toks))))

\* And([Opt(Keyword(tok)) for tok in consume]).suppress()
RECURSIVE OptKeywords(_, _, _)
OptKeywords(toks, s, p) ==
    IF toks = <<>> THEN Ok(p, <<>>)
    ELSE OptKeywords(Tail(toks), s, OrElse(Keyword(Head(toks), s, p), Ok(p, <<>>)).pos)

Suppress(m) == IF m.ok THEN Ok(m.pos, <<>>) ELSE Fail

\* one element of a compiled parser; the suppressed ones produce no token
ParseElem(el, s, p) ==
    CASE el.e = "consume" -> OptKeywords(el.toks, s, p)
      [] el.e \in {"label", "flag"} ->
            IF el.e = "label" THEN Suppress(Keywords(el.toks[1], s, p))
            ELSE Keywords(el.toks[1], s, p)
      [] el.e = "eq" -> Literal("=", s, p)
      [] el.e \in {"value", "in_parens"} ->
            MaybeInParens(el.e = "in_parens", el.expr, el.keys, s, p)

\* pp.And(expressions).parse_string(sql): text after the match is ignored
RECURSIVE ParseAnd(_, _, _, _)
ParseAnd(elems, s, p, toks) ==
    IF elems = <<>> THEN Ok(p, toks)
    ELSE Then(ParseElem(Head(elems), s, p),
              LAMBDA m : ParseAnd(Tail(elems), s, m.pos, toks \o m.toks))

\* whether the value of the parser is a list of tokens (a ParseResults)
ValueIsList(parser) ==
    \E i \in 1..Len(parser) : parser[i].e \in {"value", "in_parens"} /\ IsListExpr(parser[i].expr)

(***************************************************************************)
(* typecheck, per kind.  The raw value is PyStr(token) or PyList(tokens).  *)
(***************************************************************************)
\* a typecheck that compares the token as it is written
BoolProp_typecheck_case_sensitive(self, prop_value) ==
    IF prop_value.v \notin {<<"t","r","u","e">>, <<"f","a","l","s","e">>}
    THEN PyRaise("ValueError")
    ELSE PyBool(prop_value.v = <<"t","r","u","e">>)

\* BoolProp.typecheck: lines 100-103
BoolProp_typecheck(self, prop_value) ==
    IF str_lower(prop_value.v) \notin {<<"t","r","u","e">>, <<"f","a","l","s","e">>}
    THEN PyRaise("ValueError")
    ELSE PyBool(str_lower(prop_value.v) = <<"t","r","u","e">>)

\* StringProp.typecheck: lines 133-134
StringProp_typecheck(self, prop_value) == prop_value

\* FlagProp.typecheck: lines 151-152
FlagProp_typecheck(self, prop_value) == PyBool(TRUE)

\* StringListProp.typecheck: lines 193-194
StringListProp_typecheck(self, prop_value) ==
    PyList([i \in 1..Len(prop_value.v) |-> str_strip(prop_value.v[i], {" "})])

\* tags[key] = value on a dict held as its items in insertion order
dict_set(items, key, value) ==
    IF \E i \in 1..Len(items) : items[i][1] = key
    THEN [i \in 1..Len(items) |-> IF items[i][1] = key THEN <<key, value>> ELSE items[i]]
    ELSE Append(items, <<key, value>>)

\* for key in pairs: tags[key] = next(pairs); next() on the exhausted
\* iterator raises StopIteration out of the loop body
RECURSIVE iter_pairs(_, _)
iter_pairs(pairs, tags) ==
    IF pairs = <<>> THEN PyDict(tags)
    ELSE IF Len(pairs) = 1 THEN PyRaise("StopIteration")
    ELSE iter_pairs(Tail(Tail(pairs)), dict_set(tags, pairs[1], pairs[2]))

\* a pairing that stops at the last complete pair
RECURSIVE zip_pairs(_, _)
zip_pairs(pairs, tags) ==
    IF Len(pairs) < 2 THEN PyDict(tags)
    ELSE zip_pairs(Tail(Tail(pairs)), dict_set(tags, pairs[1], pairs[2]))

TagsProp_typecheck_dropping(self, prop_value) == zip_pairs(prop_value.v, <<>>)

\* TagsProp.typecheck: lines 238-243
TagsProp_typecheck(self, prop_value) == iter_pairs(prop_value.v, <<>>)

\* DictProp.typecheck: lines 261-266
DictProp_typecheck(self, prop_value) == iter_pairs(prop_value.v, <<>>)

\* enum_type(token): the member whose serialized value is the token
enum_call(enum_type, token) ==
    IF token \in enum_type THEN PyEnum(token) ELSE PyRaise("ValueError")

\* a typecheck that does not look the member up in valid_values
EnumProp_typecheck_any_member(self, prop_value) == enum_call(self.enum_type, prop_value.v)

\* EnumProp.typecheck: lines 276-280
EnumProp_typecheck(self, prop_value) ==
    LET member == enum_call(self.enum_type, prop_value.v)
    IN IF IsRaise(member) THEN member
       ELSE IF member.v \notin self.valid_values THEN PyRaise("ValueError")
       ELSE member

\* a typecheck that keeps the valid members and leaves the others out
EnumListProp_typecheck_filtering(self, prop_values) ==
    PyEnumList(SelectSeq(prop_values.v, LAMBDA val : val \in self.valid_values))

\* EnumListProp.typecheck: lines 297-302
EnumListProp_typecheck(self, prop_values) ==
    LET members == [i \in 1..Len(prop_values.v) |-> enum_call(self.enum_type, prop_values.v[i])]
    IN IF \E i \in 1..Len(members) : IsRaise(members[i]) THEN PyRaise("ValueError")
       ELSE IF \E i \in 1..Len(members) : members[i].v \notin self.valid_values
            THEN PyRaise("ValueError")
       ELSE PyEnumList([i \in 1..Len(members) |-> members[i].v])

\* EnumFlagProp.typecheck: lines 318-322
EnumFlagProp_typecheck(self, prop_value) ==
    LET member == enum_call(self.enum_type, prop_value.v)
    IN IF IsRaise(member) THEN member
       ELSE IF member.v \notin self.valid_values THEN PyRaise("ValueError")
       ELSE member

\* the kinds whose parse and typecheck are modelled
ParsedKinds == {"BoolProp", "StringProp", "FlagProp", "StringListProp", "TagsProp",
                "DictProp", "EnumProp", "EnumListProp", "EnumFlagProp"}

\* the typecheck method the class of self resolves to
typecheck(self, prop_value) ==
    CASE self.cls = "BoolProp" -> BoolProp_typecheck(self, prop_value)
      [] self.cls = "StringProp" -> StringProp_typecheck(self, prop_value)
      [] self.cls = "FlagProp" -> FlagProp_typecheck(self, prop_value)
      [] self.cls = "StringListProp" -> StringListProp_typecheck(self, prop_value)
      [] self.cls = "TagsProp" -> TagsProp_typecheck(self, prop_value)
      [] self.cls = "DictProp" -> DictProp_typecheck(self, prop_value)
      [] self.cls = "EnumProp" -> EnumProp_typecheck(self, prop_value)
      [] self.cls = "EnumListProp" -> EnumListProp_typecheck(self, prop_value)
      [] self.cls = "EnumFlagProp" -> EnumFlagProp_typecheck(self, prop_value)
      [] OTHER -> PyRaise("NotImplementedError")

\* the value named prop_value, as_list() of it when it is a ParseResults
prop_value_of(self, parsed) ==
    IF ValueIsList(self.parser) THEN PyList(parsed.toks) ELSE PyStr(parsed.toks[1])

Prop_parse_parsed(self, parsed) ==
    IF ~parsed.ok THEN PyRaise("ParseException")
    ELSE typecheck(self, prop_value_of(self, parsed))

\* Prop.parse: lines 66-71
Prop_parse(self, sql) == Prop_parse_parsed(self, ParseAnd(self.parser, sql, 1, <<>>))

(***************************************************************************)
(* Props: the named collection.  self.props is the sequence of its         *)
(* [key, prop] items in insertion order; a record passed to render is the  *)
(* sequence of its <<key, value>> items in the record's own order.         *)
(***************************************************************************)
\* data.pop(key, None): the value, and the record without the key
dict_pop(data, key) ==
    [value |-> IF \E i \in 1..Len(data) : data[i][1] = key
               THEN data[CHOOSE i \in 1..Len(data) : data[i][1] = key][2]
               ELSE PyNone,
     data |-> SelectSeq(data, LAMBDA item : item[1] # key)]

\* data.get(key): the value or None, and the record as it is left
dict_get(data, key) ==
    [value |-> IF \E i \in 1..Len(data) : data[i][1] = key
               THEN data[CHOOSE i \in 1..Len(data) : data[i][1] = key][2]
               ELSE PyNone,
     data |-> data]

\* the loop of Props.render: lines 91-95
RECURSIVE Props_render_loop(_, _, _, _)
Props_render_value(items, ds, got, rendered, r) ==
    IF IsRaise(r) THEN [out |-> r, rendered |-> rendered, data |-> got.data]
    ELSE Props_render_loop(Tail(items), ds, got.data, Append(rendered, r.v))

Props_render_item(items, ds, got, rendered) ==
    IF got.value = PyNone THEN Props_render_loop(Tail(items), ds, got.data, rendered)
    ELSE Props_render_value(items, ds, got, rendered, render(ds[Head(items).prop], got.value))

Props_render_loop(items, ds, data, rendered) ==
    IF items = <<>> THEN [out |-> PyStr(tidy_sql(rendered)), rendered |-> rendered, data |-> data]
    ELSE Props_render_item(items, ds, dict_get(data, Head(items).key), rendered)

\* the record's own items, reordered as the keys of the collection that
\* hold a value in it come in the record
RECURSIVE record_order(_, _)
record_order(items, data) ==
    IF data = <<>> THEN <<>>
    ELSE SelectSeq(items, LAMBDA it : it.key = Head(data)[1]) \o record_order(items, Tail(data))

\* a loop over the record's keys instead of the collection's
Props_render_record_order(self, ds, data) ==
    Props_render_loop(record_order(self.items, data), ds, data, <<>>)

\* Props.render: lines 89-96
Props_render(self, ds, data) == Props_render_loop(self.items, ds, data, <<>>)

(***************************************************************************)
(* The descriptors of the model: a catalogue built at start-up, one of     *)
(* each kind, and one more descriptor a later constructor call builds.     *)
(***************************************************************************)
RO == <<"R","O">>
RW == <<"R","W">>

Catalogue ==
    [ok    |-> BoolProp(PyStr(<<"o","k">>), NoKwargs),
     n     |-> IntProp(PyStr(<<"n">>), NoKwargs),
     c     |-> StringProp(PyStr(<<"c">>), NoKwargs),
     fl    |-> FlagProp(PyStr(<<"f","l">>)),
     db    |-> IdentifierProp(PyStr(<<"d","b">>), NoKwargs),
     ids   |-> IdentifierListProp(PyStr(<<"i","d","s">>), NoKwargs),
     names |-> StringListProp(PyStr(<<"n","a","m","e","s">>), NoKwargs),
     namesp |-> StringListProp(PyStr(<<"n","a","m","e","s">>), [NoKwargs EXCEPT !.parens = TRUE]),
     opt   |-> PropSet(PyStr(<<"o","p","t">>)),
     tags  |-> TagsProp,
     h     |-> DictProp(PyStr(<<"h">>), [NoKwargs EXCEPT !.parens = TRUE]),
     kind  |-> EnumProp(PyStr(<<"k","i","n","d">>), {RO, RW}, NoKwargs),
     modes |-> EnumListProp(PyStr(<<"m","o","d","e","s">>), {RO, RW}, NoKwargs),
     mode  |-> EnumFlagProp({RO, RW}, NoKwargs),
     as    |-> QueryProp(PyStr(<<"a","s">>)),
     ex    |-> ExpressionProp(PyStr(<<"e","x">>)),
     at    |-> TimeTravelProp(PyStr(<<"a","t">>)),
     cond  |-> AlertConditionProp,
     sp    |-> SessionParametersProp(PyStr(<<"s","p">>)),
     cols  |-> ColumnsProp,
     colnames |-> ColumnNamesProp,
     new   |-> NoDesc]

Names == DOMAIN Catalogue

\* the constructor calls made after start-up
NewDescriptors ==
    { BoolProp(PyStr(<<"i","s"," ","o","k">>), [eq |-> FALSE, parens |-> FALSE,
                                alt_tokens |-> PyList(<<<<"O","K">>>>),
                                consume |-> PyStr(<<"W","I","T","H">>)]),
      EnumProp(PyStr(<<"k","i","n","d">>), Mode, NoKwargs) }

\* the collections a Props(...) call builds
Collections ==
    { [name |-> "basic",
       items |-> <<[key |-> "ok", prop |-> "ok"], [key |-> "fl", prop |-> "fl"],
                   [key |-> "names", prop |-> "names"]>>],
      [name |-> "mixed",
       items |-> <<[key |-> "ids", prop |-> "ids"], [key |-> "modes", prop |-> "modes"]>>] }

(***************************************************************************)
(* The inputs of the calls.                                                *)
(***************************************************************************)
Seqs(S, n) == UNION {[1..k -> S] : k \in 0..n}

Strs(S) == {PyStr(x) : x \in S}

\* mappings str -> str with distinct keys, as their items in order
TagMaps ==
    {m \in Seqs({<<"k">>, <<"e">>} \X {<<"v">>, <<"p">>}, MaxLen) :
        \A i, j \in 1..Len(m) : i # j => m[i][1] # m[j][1]}

ColumnA == [name |-> <<"a">>, data_type |-> <<"I","N","T">>, comment |-> <<>>]
ColumnB == [name |-> <<"b">>, data_type |-> <<"I","N","T">>, comment |-> <<"x">>]

\* the values render is called with, per kind, besides None
RenderValues(cls) ==
    CASE cls \in {"BoolProp", "FlagProp"} -> {PyBool(TRUE), PyBool(FALSE)}
      [] cls = "IntProp" -> {PyInt(1), PyInt(12)}
      [] cls = "StringProp" -> Strs({<<"x">>, <<>>})
      [] cls = "IdentifierProp" -> Strs({<<"a",".","b">>})
      [] cls = "StringListProp" -> {PyList(l) : l \in Seqs({<<"a">>, <<"b","1">>}, MaxLen)}
      [] cls = "IdentifierListProp" -> {PyList(<<<<"a">>, <<"b","1">>>>)}
      [] cls = "TagsProp" -> {PyDict(m) : m \in TagMaps}
      [] cls \in {"DictProp", "PropSet", "SessionParametersProp"} -> {PyDict(<<<<<<"k">>, <<"v">>>>>>)}
      [] cls \in {"EnumProp", "EnumFlagProp"} -> {PyEnum(m) : m \in Mode}
      [] cls = "EnumListProp" -> {PyEnumList(<<>>), PyEnumList(<<RO>>), PyEnumList(<<RO, RW>>)}
      [] cls \in {"QueryProp", "ExpressionProp", "AlertConditionProp"} -> Strs({<<"s","e","l","e","c","t"," ","1">>})
      [] cls = "TimeTravelProp" -> {PyDict(<<<<<<"o","f","f","s","e","t">>, <<"-","1">>>>>>)}
      [] cls = "ColumnsProp" ->
            {PyColumns(<<>>), PyColumns(<<ColumnA>>), PyColumns(<<ColumnA, ColumnB>>)}
      [] cls = "ColumnNamesProp" -> {PyColumns(<<ColumnA>>)}

\* the texts parse is called with, per kind
SqlInputs(cls) ==
    CASE cls = "BoolProp" ->
            { <<"o","k"," ","="," ","t","r","u","e">>, <<"O","K","=","F","a","l","s","e">>, <<"o","k"," ","="," ","y","e","s">>, <<"o","k"," ","="," ","'","t","r","u","e","'">>,
              <<"w","i","t","h"," ","i","s"," ","o","k"," ","T","R","U","E">>, <<"i","s"," ","o","k"," ","f","a","l","s","e">>, <<"o","k","a","y"," ","="," ","t","r","u","e">> }
      [] cls = "StringProp" -> { <<"c"," ","="," ","'","x","'">>, <<"c"," ","="," ","x">> }
      [] cls = "FlagProp" -> { <<"f","l">>, <<"F","L"," ","x">>, <<"f","l","a","g">> }
      [] cls = "StringListProp" ->
            { <<"n","a","m","e","s"," ","="," ","a",","," ","b","1">>, <<"n","a","m","e","s"," ","="," ","(","a",","," ","b","1",")">>, <<"n","a","m","e","s"," ","="," ","("," ","a"," ",")">> }
      [] cls = "TagsProp" ->
            { <<"T","A","G"," ","(","k"," ","="," ","'","v","'",")">>, <<"w","i","t","h"," ","t","a","g"," ","(","k"," ","="," ","'","v","'",","," ","e"," ","="," ","'","p","'",")">>,
              <<"T","A","G"," ","(","k"," ","="," ","'","v","'",","," ","e",")">>, <<"T","A","G"," ","k"," ","="," ","'","v","'">> }
      [] cls = "DictProp" -> { <<"h"," ","="," ","(","k"," ","="," ","v",","," ","e"," ","="," ","p",")">>, <<"h"," ","="," ","(","'","k","'"," ","="," ","'","v","'",")">> }
      [] cls = "EnumProp" ->
            { <<"k","i","n","d"," ","="," ","r","o">>, <<"K","I","N","D"," ","="," ","R","W">>, <<"k","i","n","d"," ","="," ","N","O">>, <<"k","i","n","d"," ","="," ","n","o">>,
              <<"k","i","n","d"," ","="," ","z","z">>, <<"k","i","n","d"," ","="," ","'","R","O","'">>, <<"k","i","n","d"," ","="," ","r","o","x">> }
      [] cls = "EnumListProp" ->
            { <<"m","o","d","e","s"," ","="," ","R","O",","," ","r","w">>, <<"m","o","d","e","s"," ","="," ","r","o",","," ","N","O">>, <<"m","o","d","e","s"," ","="," ","N","O",","," ","R","O">>,
              <<"m","o","d","e","s"," ","="," ","R","O",","," ","z","z">>, <<"m","o","d","e","s"," ","="," ","r","w">> }
      [] cls = "EnumFlagProp" -> { <<"r","o">>, <<"R","W">>, <<"N","O">>, <<"z","z">> }

\* the raw values typecheck is called with, per kind
RawValues(cls) ==
    CASE cls = "BoolProp" -> Strs({<<"t","r","u","e">>, <<"T","R","U","E">>, <<"F","a","l","s","e">>, <<"y","e","s">>, <<>>})
      [] cls = "StringProp" -> Strs({<<"'","x","'">>})
      [] cls = "FlagProp" -> Strs({<<"f","l">>})
      [] cls = "StringListProp" -> {PyList(l) : l \in Seqs({<<" ","a"," ">>}, MaxLen)}
      [] cls = "TagsProp" -> {PyList(l) : l \in Seqs({<<"k">>, <<"'","v","'">>}, MaxLen + 1)}
      [] cls = "DictProp" -> {PyList(l) : l \in Seqs({<<"h">>}, MaxLen + 1)}
      [] cls \in {"EnumProp", "EnumFlagProp"} -> Strs({<<"R","O">>, <<"r","o">>, <<"N","O">>, <<"z","z">>})
      [] cls = "EnumListProp" -> {PyList(l) : l \in Seqs({<<"R","O">>, <<"N","O">>, <<"z","z">>}, MaxLen)}

\* the values a record holds under the key of a descriptor
RecordValues(cls) ==
    CASE cls = "BoolProp" -> {PyBool(TRUE)}
      [] cls = "FlagProp" -> {PyBool(TRUE), PyBool(FALSE)}
      [] cls \in {"StringListProp", "IdentifierListProp"} -> {PyNone, PyList(<<<<"a">>, <<"b","1">>>>)}
      [] cls = "EnumListProp" -> {PyEnumList(<<>>), PyEnumList(<<RO>>)}

\* the records Props.render is called with: any of the keys of the
\* collection, each with one of its values, in every order
Records(self, ds) ==
    LET Pairs == UNION { {<<self.items[i].key, v>> :
                            v \in RecordValues(ds[self.items[i].prop].cls)} :
                         i \in 1..Len(self.items) }
    IN {d \in Seqs(Pairs, Len(self.items)) :
          \A i, j \in 1..Len(d) : i # j => d[i][1] # d[j][1]}

PyRecord(d) == [t |-> "record", v |-> d]

(***************************************************************************)
(* The state machine: call is the last call made and its outcome.          *)
(***************************************************************************)
\* no rendered value behind a text
NoSrc == [t |-> "nosrc", v |-> <<>>]

Call(op, prop, arg, arg_after, out, src, rendered) ==
    [op |-> op, prop |-> prop, arg |-> arg, arg_after |-> arg_after, out |-> out,
     src |-> src, rendered |-> rendered]

Basic == CHOOSE c \in Collections : c.name = "basic"

Init ==
    /\ default_alt_tokens = <<>>
    /\ default_consume = <<>>
    /\ descs = Catalogue
    /\ props = Basic
    /\ call = Call("start", "", PyNone, PyNone, PyNone, NoSrc, <<>>)

\* a constructor call of a descriptor: Prop.__init__, lines 31-61
Construct ==
    \E d \in NewDescriptors :
        /\ descs' = [descs EXCEPT !.new = d]
        /\ call' = Call("Prop.__init__", "new", PyNone, PyNone, PyNone, NoSrc, <<>>)
        /\ UNCHANGED <<props, default_alt_tokens, default_consume>>

\* Props.__init__: lines 81-84
PropsInit ==
    \E c \in Collections :
        /\ props' = c
        /\ call' = Call("Props.__init__", "", PyNone, PyNone, PyNone, NoSrc, <<>>)
        /\ UNCHANGED <<descs, default_alt_tokens, default_consume>>

\* prop.render(value)
Render ==
    \E n \in Names :
        /\ descs[n] # NoDesc
        /\ \E v \in RenderValues(descs[n].cls) \cup {PyNone} :
              call' = Call("render", n, v, v, render(descs[n], v), NoSrc, <<>>)
        /\ UNCHANGED <<descs, props, default_alt_tokens, default_consume>>

\* prop.parse(sql) of a given text
Parse ==
    \E n \in Names :
        /\ descs[n].cls \in ParsedKinds
        /\ \E sql \in SqlInputs(descs[n].cls) :
              call' = Call("parse", n, PyStr(sql), PyStr(sql), Prop_parse(descs[n], sql),
                           NoSrc, <<>>)
        /\ UNCHANGED <<descs, props, default_alt_tokens, default_consume>>

\* prop.parse(text) of the text the same descriptor has just rendered
ParseRendered ==
    /\ call.op = "render"
    /\ call.out.t = "str"
    /\ descs[call.prop].cls \in ParsedKinds
    /\ call' = Call("parse", call.prop, call.out, call.out,
                    Prop_parse(descs[call.prop], call.out.v), call.arg, <<>>)
    /\ UNCHANGED <<descs, props, default_alt_tokens, default_consume>>

\* prop.typecheck(raw)
Typecheck ==
    \E n \in Names :
        /\ descs[n].cls \in ParsedKinds
        /\ \E raw \in RawValues(descs[n].cls) :
              call' = Call("typecheck", n, raw, raw, typecheck(descs[n], raw), NoSrc, <<>>)
        /\ UNCHANGED <<descs, props, default_alt_tokens, default_consume>>

\* props.render(data)
PropsRender ==
    \E data \in Records(props, descs) :
        LET r == Props_render(props, descs, data)
        IN /\ call' = Call("Props.render", "", PyRecord(data), PyRecord(r.data), r.out,
                           NoSrc, r.rendered)
           /\ UNCHANGED <<descs, props, default_alt_tokens, default_consume>>

Next == Construct \/ PropsInit \/ Render \/ Parse \/ ParseRendered \/ Typecheck \/ PropsRender

Spec == Init /\ [][Next]_vars

(***************************************************************************)
(* Properties.                                                             *)
(***************************************************************************)
\* the value a record holds under a key, None when it holds none
Lookup(data, key) ==
    IF \E i \in 1..Len(data) : data[i][1] = key
    THEN data[CHOOSE i \in 1..Len(data) : data[i][1] = key][2]
    ELSE PyNone

\* the items of the collection whose key the record populates, in the
\* declared order of the collection
Populated(self, data) == SelectSeq(self.items, LAMBDA it : Lookup(data, it.key) # PyNone)

\* the kinds whose render is not supported
Unsupported == {"IdentifierListProp", "PropSet", "DictProp", "SessionParametersProp",
                "ColumnNamesProp"}

\* a populated key whose fragment is empty by design: a false flag, an
\* empty enum list
EmptyByDesign(cls, value) ==
    \/ cls = "FlagProp" /\ value = PyBool(FALSE)
    \/ cls = "EnumListProp" /\ value = PyEnumList(<<>>)

IsPropsRender == call.op = "Props.render"

\* C1 as stated: Props.render produces exactly N non-empty fragments, N the
\* number of keys the record populates (present and not None), in the
\* declared order of the collection
C1_Original ==
    (IsPropsRender /\ call.out.t = "str") =>
        LET pop == Populated(props, call.arg.v)
        IN NonEmpty(call.rendered) =
             [i \in 1..Len(pop) |-> render(descs[pop[i].prop], Lookup(call.arg.v, pop[i].key)).v]

\* C1 as amended: whenever Props.render returns, it has produced exactly one
\* fragment per populated key (present and not None), in the declared order
\* of the collection whatever the order of the record's keys; the fragment of
\* a populated key is empty exactly for a flag holding false and for an enum
\* list holding an empty sequence, so the non-empty fragments number N less
\* the number of such keys; the text returned is the non-empty fragments
\* joined by single spaces
C1_Amended ==
    (IsPropsRender /\ call.out.t = "str") =>
        LET data == call.arg.v
            pop == Populated(props, data)
            empty == {i \in 1..Len(pop) :
                        EmptyByDesign(descs[pop[i].prop].cls, Lookup(data, pop[i].key))}
        IN /\ call.rendered =
                [i \in 1..Len(pop) |-> render(descs[pop[i].prop], Lookup(data, pop[i].key)).v]
           /\ \A i \in 1..Len(pop) : (call.rendered[i] = <<>>) <=> (i \in empty)
           /\ Len(NonEmpty(call.rendered)) = Len(pop) - Cardinality(empty)
           /\ call.out = PyStr(str_join(<<" ">>, NonEmpty(call.rendered)))

\* a record that populates the three keys of the collection, listed in
\* another order than the declared one, the flag false
C1_Witness ==
    /\ IsPropsRender
    /\ call.out = PyStr(<<"O","K"," ","="," ","T","R","U","E"," ","N","A","M","E","S"," ","="," ","(","a",","," ","b","1",")">>)
    /\ Len(call.arg.v) = 3
    /\ call.arg.v[1][1] = "names"
    /\ Lookup(call.arg.v, "fl") = PyBool(FALSE)
    /\ call.rendered = <<<<"O","K"," ","="," ","T","R","U","E">>, <<>>, <<"N","A","M","E","S"," ","="," ","(","a",","," ","b","1",")">>>>

IsRenderNone == call.op = "render" /\ call.arg = PyNone

\* C2 as stated: for every kind, render(None) returns the empty fragment
\* and raises no error
C2_Original == IsRenderNone => call.out = PyStr(<<>>)

\* C2 as amended: render(None) returns the empty fragment for every kind
\* that implements render except the column list, which returns "()"; the
\* kinds that implement no render (identifier list, nested property set,
\* key/value map, session parameters, column-name list) raise
\* NotImplementedError
C2_Amended ==
    IsRenderNone =>
        call.out = CASE descs[call.prop].cls \in Unsupported -> PyRaise("NotImplementedError")
                     [] descs[call.prop].cls = "ColumnsProp" -> PyStr(<<"(", ")">>)
                     [] OTHER -> PyStr(<<>>)

C2_Witness ==
    /\ IsRenderNone
    /\ descs[call.prop].cls = "ColumnsProp"
    /\ call.out = PyStr(<<"(", ")">>)

HasUnsupported(self) ==
    \E i \in 1..Len(self.items) : descs[self.items[i].prop].cls \in Unsupported

\* C3 as stated: on a collection that holds a descriptor of an unsupported
\* kind, every Props.render call fails (construction does not fail)
C3_Original == (IsPropsRender /\ HasUnsupported(props)) => IsRaise(call.out)

\* C3 as amended: constructing a collection that holds a descriptor of an
\* unsupported kind does not fail; Props.render on it fails with
\* NotImplementedError at every call whose record populates (present and not
\* None) the key of such a descriptor, and at those calls only: with that key
\* absent or None it returns the text of the other clauses
C3_Amended ==
    IsPropsRender =>
        LET pop == Populated(props, call.arg.v)
            hit == \E i \in 1..Len(pop) : descs[pop[i].prop].cls \in Unsupported
        IN IF hit THEN call.out = PyRaise("NotImplementedError")
           ELSE call.out.t = "str"

C3_Witness ==
    /\ IsPropsRender
    /\ HasUnsupported(props)
    /\ Lookup(call.arg.v, "ids") # PyNone
    /\ Lookup(call.arg.v, "modes") = PyEnumList(<<RO>>)
    /\ call.out = PyRaise("NotImplementedError")

\* a call of parse on the text the same descriptor rendered from call.src
IsRoundTrip(cls) == call.op = "parse" /\ call.src # NoSrc /\ descs[call.prop].cls = cls

\* C4: parsing the text TagsProp.render gives for a mapping yields the
\* mapping, each key with its own value
C4_RoundTrip == (IsRoundTrip("TagsProp") /\ call.src # PyNone) => call.out = call.src

IsOdd(n) == n % 2 = 1

IsPairTypecheck ==
    /\ call.op = "typecheck"
    /\ descs[call.prop].cls \in {"TagsProp", "DictProp"}

\* C5: typecheck of a tag map or of a key/value map given a token sequence
\* of odd length fails with an error (StopIteration) and returns no mapping
C5_OddFails ==
    (IsPairTypecheck /\ IsOdd(Len(call.arg.v))) => call.out = PyRaise("StopIteration")

C5_Witness ==
    /\ IsPairTypecheck
    /\ descs[call.prop].cls = "TagsProp"
    /\ call.arg = PyList(<<<<"k">>, <<"'","v","'">>, <<"k">>>>)
    /\ IsRaise(call.out)

\* C6: parsing the text StringListProp.render gives for a sequence of
\* strings, with the same descriptor, yields the sequence
C6_RoundTrip == (IsRoundTrip("StringListProp") /\ call.src # PyNone) => call.out = call.src

BoolTokens == {<<"t","r","u","e">>, <<"f","a","l","s","e">>}

EnumTokens == {<<"r","o">>, <<"R","O">>, <<"R","W">>, <<"r","w">>, <<"N","O">>, <<"n","o">>, <<"z","z">>, <<"r","o","x">>, <<"'","R","O","'">>}

\* the members of a set of serialized values a token equals, case ignored
Matches(S, tok) == {m \in S : str_upper(m) = str_upper(tok)}

IsEnumParse(tok) ==
    /\ call.op = "parse"
    /\ descs[call.prop].cls = "EnumProp"
    /\ call.arg.v \in {<<"k","i","n","d"," ","="," ">> \o tok, <<"K","I","N","D"," ","="," ">> \o tok}

\* C8: EnumProp.parse of a clause whose value token equals, case ignored,
\* the serialized form of a member of the allowed set S returns that member;
\* of a clause whose value token matches no member of S it raises ValueError;
\* also when S is a strict subset of the enumeration
C8_EnumParse ==
    \A tok \in EnumTokens :
        IsEnumParse(tok) =>
            IF Matches(descs[call.prop].valid_values, tok) # {}
            THEN call.out \in {PyEnum(m) : m \in Matches(descs[call.prop].valid_values, tok)}
            ELSE call.out = PyRaise("ValueError")

C8_Witness ==
    /\ IsEnumParse(<<"r","o">>)
    /\ descs[call.prop].valid_values # descs[call.prop].enum_type
    /\ call.out = PyEnum(RO)

\* the member a token stands for, case ignored
MemberOf(S, tok) == CHOOSE m \in S : str_upper(m) = str_upper(tok)

IsEnumListParse(toks) ==
    /\ call.op = "parse"
    /\ descs[call.prop].cls = "EnumListProp"
    /\ call.arg.v = <<"m","o","d","e","s"," ","="," ">> \o str_join(<<",", " ">>, toks)

\* C9: EnumListProp.parse of a comma-separated list of tokens that all are
\* members of the allowed set yields the members in input order, as many as
\* the tokens; with any token, at any position, outside the allowed set it
\* raises ValueError and returns no sequence; typecheck alike
C9_EnumListParse ==
    /\ \A toks \in Seqs(EnumTokens, 2) :
          (toks # <<>> /\ IsEnumListParse(toks)) =>
              IF \A i \in 1..Len(toks) : Matches(descs[call.prop].valid_values, toks[i]) # {}
              THEN call.out = PyEnumList([i \in 1..Len(toks) |->
                                            MemberOf(descs[call.prop].valid_values, toks[i])])
              ELSE call.out = PyRaise("ValueError")
    /\ (call.op = "typecheck" /\ descs[call.prop].cls = "EnumListProp") =>
          IF \A i \in 1..Len(call.arg.v) : call.arg.v[i] \in descs[call.prop].valid_values
          THEN call.out = PyEnumList(call.arg.v)
          ELSE call.out = PyRaise("ValueError")

C9_Witness ==
    /\ IsEnumListParse(<<<<"R","O">>, <<"r","w">>>>)
    /\ call.out = PyEnumList(<<RO, RW>>)

\* C10: no call of parse, typecheck or render changes a descriptor or the
\* collection, no call changes the record or value it is passed, and a
\* constructor call changes neither the shared default arguments nor any
\* descriptor but the one it builds
C10_Frame ==
    [][/\ \A n \in Names \ {"new"} : descs'[n] = descs[n]
       /\ (descs'.new # descs.new) => call'.op = "Prop.__init__"
       /\ (props' # props) => call'.op = "Props.__init__"
       /\ default_alt_tokens' = default_alt_tokens
       /\ default_consume' = default_consume
       /\ call'.arg_after = call'.arg]_vars

C10_Witness ==
    /\ IsPropsRender
    /\ descs.new # NoDesc
    /\ descs.new.alt_tokens = {<<"o","k">>}
    /\ Len(call.arg.v) = 3
    /\ call.arg_after = call.arg
    /\ default_alt_tokens = <<>>

====
